---- MODULE Spec2Model ----
(***************************************************************************)
(* A model of supabase-function-rs: FunctionsClient (src/src/client.rs),   *)
(* its data model (src/src/models.rs) and error type (src/src/errors.rs).  *)
(*                                                                         *)
(* Strings that the code only stores, compares or copies are TLA+ strings. *)
(* Strings the code takes apart are sequences of tokens: a Content-Type    *)
(* value is a sequence in which ";" is a token of its own, a body is a     *)
(* sequence of lexical tokens / bytes.                                     *)
(***************************************************************************)
EXTENDS Naturals, Sequences, FiniteSets, TLC

VARIABLES
    url,            \* FunctionsClient.url
    headers,        \* FunctionsClient.headers : HashMap<String, String>
    region,         \* FunctionsClient.region
    iterOrder,      \* the iteration order of FunctionsClient.headers (unspecified by HashMap)
    pc,             \* per call of invoke: "idle", "send", "body", "done"
    function_name,  \* per call: the function_name argument
    options,        \* per call: the options argument (while the request is being built and held)
    request,        \* per call: the request_builder handed to the transport
    sent,           \* per call: number of requests this call has dispatched
    response,       \* per call: the response received from the transport
    outcome,        \* per call: the value invoke returned
    last            \* the last operation performed and the client state it started from

client == <<url, headers, region, iterOrder>>
calls  == <<pc, function_name, options, request, sent, response, outcome>>
vars   == <<url, headers, region, iterOrder, pc, function_name, options, request,
            sent, response, outcome, last>>

(***************************************************************************)
(* Bounds                                                                  *)
(***************************************************************************)
\* number of invoke calls that can be in flight on the one client
NumCalls == 2

Calls == 1..NumCalls

(***************************************************************************)
(* models.rs: FunctionRegion and its Display                               *)
(***************************************************************************)
FunctionRegion ==
    {"Any", "ApNortheast1", "ApNortheast2", "ApSouth1", "ApSoutheast1",
     "ApSoutheast2", "CaCentral1", "EuCentral1", "EuWest1", "EuWest2",
     "EuWest3", "SaEast1", "UsEast1", "UsWest1", "UsWest2"}

\* impl Display for FunctionRegion
region_to_string(r) ==
    CASE r = "Any"          -> "any"
      [] r = "ApNortheast1" -> "ap-northeast-1"
      [] r = "ApNortheast2" -> "ap-northeast-2"
      [] r = "ApSouth1"     -> "ap-south-1"
      [] r = "ApSoutheast1" -> "ap-southeast-1"
      [] r = "ApSoutheast2" -> "ap-southeast-2"
      [] r = "CaCentral1"   -> "ca-central-1"
      [] r = "EuCentral1"   -> "eu-central-1"
      [] r = "EuWest1"      -> "eu-west-1"
      [] r = "EuWest2"      -> "eu-west-2"
      [] r = "EuWest3"      -> "eu-west-3"
      [] r = "SaEast1"      -> "sa-east-1"
      [] r = "UsEast1"      -> "us-east-1"
      [] r = "UsWest1"      -> "us-west-1"
      [] r = "UsWest2"      -> "us-west-2"

\* The words of each variant's identifier, as declared in the enum.
RegionWords(r) ==
    CASE r = "Any"          -> <<"Any">>
      [] r = "ApNortheast1" -> <<"Ap", "Northeast", "1">>
      [] r = "ApNortheast2" -> <<"Ap", "Northeast", "2">>
      [] r = "ApSouth1"     -> <<"Ap", "South", "1">>
      [] r = "ApSoutheast1" -> <<"Ap", "Southeast", "1">>
      [] r = "ApSoutheast2" -> <<"Ap", "Southeast", "2">>
      [] r = "CaCentral1"   -> <<"Ca", "Central", "1">>
      [] r = "EuCentral1"   -> <<"Eu", "Central", "1">>
      [] r = "EuWest1"      -> <<"Eu", "West", "1">>
      [] r = "EuWest2"      -> <<"Eu", "West", "2">>
      [] r = "EuWest3"      -> <<"Eu", "West", "3">>
      [] r = "SaEast1"      -> <<"Sa", "East", "1">>
      [] r = "UsEast1"      -> <<"Us", "East", "1">>
      [] r = "UsWest1"      -> <<"Us", "West", "1">>
      [] r = "UsWest2"      -> <<"Us", "West", "2">>

(***************************************************************************)
(* models.rs: HttpMethod                                                   *)
(***************************************************************************)
HttpMethod == {"Post", "Get", "Put", "Patch", "Delete"}

\* HttpMethod::as_str
as_str(m) ==
    CASE m = "Post"   -> "POST"
      [] m = "Get"    -> "GET"
      [] m = "Put"    -> "PUT"
      [] m = "Patch"  -> "PATCH"
      [] m = "Delete" -> "DELETE"

(***************************************************************************)
(* Option<T>.  An Option<String-like> is the string "None" or the value;   *)
(* an Option of a structured T is a record with an is_some flag.           *)
(***************************************************************************)
None == "None"

EmptyMap == [k \in {} |-> ""]

\* serde_json::Value, one level deep: a string, a number, or an object whose
\* members are strings or numbers.
JsonScalar(t, s) == [type |-> t, str |-> s]
JsonValue(t, s, m) == [type |-> t, str |-> s, members |-> m]
NoJson == JsonValue("none", "", [k \in {} |-> JsonScalar("none", "")])

(***************************************************************************)
(* models.rs: InvokeBody (and Option<InvokeBody>, variant "None")          *)
(***************************************************************************)
InvokeBody(variant, bytes, form, json) ==
    [variant |-> variant, bytes |-> bytes, form |-> form, json |-> json]

NoBody == InvokeBody(None, <<>>, EmptyMap, [k \in {} |-> JsonScalar("none", "")])

BinaryVariants == {"File", "Blob", "ArrayBuffer"}

\* the payloads the model invokes with
SampleBytes == {<<"0x01", "0x02", "0xFF">>}
SampleText  == {<<"request text">>}
SampleForm  == {("field" :> "value")}
SampleJson  == {("request_key" :> JsonScalar("string", "request_value"))}

InvokeBodies ==
    {NoBody}
    \cup {InvokeBody(v, b, NoBody.form, NoBody.json) : v \in BinaryVariants, b \in SampleBytes}
    \cup {InvokeBody("String", s, NoBody.form, NoBody.json) : s \in SampleText}
    \cup {InvokeBody("FormData", <<>>, f, NoBody.json) : f \in SampleForm}
    \cup {InvokeBody("Json", <<>>, NoBody.form, j) : j \in SampleJson}

(***************************************************************************)
(* models.rs: FunctionInvokeOptions (and Option<FunctionInvokeOptions>)    *)
(***************************************************************************)
OptHeaders(is_some, map) == [is_some |-> is_some, map |-> map]

FunctionInvokeOptions(h, m, r, b) ==
    [headers |-> h, method |-> m, region |-> r, body |-> b]

\* #[derive(Default)] for FunctionInvokeOptions: every field None
DefaultOptions == FunctionInvokeOptions(OptHeaders(FALSE, EmptyMap), None, None, NoBody)

OptOptions(is_some, o) == [is_some |-> is_some, value |-> o]

\* options.unwrap_or_default()
unwrap_or_default(opt) == IF opt.is_some THEN opt.value ELSE DefaultOptions

SampleCallHeaders ==
    {OptHeaders(FALSE, EmptyMap), OptHeaders(TRUE, ("X-Custom" :> "per-call")),
     OptHeaders(TRUE, ("Authorization" :> "Bearer per-call"))}

Options(H, M, R, B) ==
    {OptOptions(TRUE, FunctionInvokeOptions(h, m, r, b)) : h \in H, m \in M, r \in R, b \in B}

\* The options the model invokes with: omitted; every region; every method;
\* every body variant with and without a region, a method and per-call headers.
AllOptions ==
    {OptOptions(FALSE, DefaultOptions)}
    \cup Options({OptHeaders(FALSE, EmptyMap)}, {None}, {None} \cup FunctionRegion, {NoBody})
    \cup Options({OptHeaders(FALSE, EmptyMap)}, {None} \cup HttpMethod, {None, "UsWest2"},
                 {b \in InvokeBodies : b.variant \in {None, "Json"}})
    \cup Options(SampleCallHeaders, {None, "Get"}, {None, "Any", "UsEast1"}, InvokeBodies)

FunctionNames == {"function-name", "hello"}

(***************************************************************************)
(* http::HeaderName / HeaderValue / HeaderMap as client.rs uses them       *)
(***************************************************************************)
\* the keys and values the model stores in FunctionsClient.headers
HeaderKeys == {"Authorization", "authorization", "X-Region", "Content-Type",
               "X-Custom", "bad name"}

\* HeaderName::try_from(key): a header name is a token (no space) and is
\* normalised to lower case; "" stands for Err.
header_name(key) ==
    CASE key = "Authorization" -> "authorization"
      [] key = "authorization" -> "authorization"
      [] key = "X-Region"      -> "x-region"
      [] key = "x-region"      -> "x-region"
      [] key = "Content-Type"  -> "content-type"
      [] key = "X-Custom"      -> "x-custom"
      [] key = "bad name"      -> ""

\* HeaderValue::from_str(value) is Err for a value holding a control character
header_value_ok(value) == value \notin {"two\nlines"}

\* HeaderMap::new()
EmptyHeaderMap == [n \in {} |-> <<>>]

\* HeaderMap::insert: the name now holds exactly this value
hm_insert(hm, name, value) ==
    [n \in DOMAIN hm \cup {name} |-> IF n = name THEN <<value>> ELSE hm[n]]

\* HeaderMap::append: the value is added after the name's existing values
hm_append(hm, name, value) ==
    [n \in DOMAIN hm \cup {name} |->
        IF n = name
        THEN (IF name \in DOMAIN hm THEN Append(hm[name], value) ELSE <<value>>)
        ELSE hm[n]]

\* HeaderMap::contains_key
hm_contains(hm, name) == name \in DOMAIN hm

(***************************************************************************)
(* errors.rs: FunctionsError                                               *)
(***************************************************************************)
FunctionsError(kind, msg) == [kind |-> kind, msg |-> msg]
FetchError(msg) == FunctionsError("FetchError", msg)
HttpError(msg)  == FunctionsError("HttpError", msg)
RelayError(msg) == FunctionsError("RelayError", msg)
NoError == FunctionsError("none", "")

ErrorKinds == {"FetchError", "HttpError", "RelayError"}

(***************************************************************************)
(* client.rs, invoke: the request builder (lines 35-83)                    *)
(***************************************************************************)
\* persistent_headers leaving out the entries whose conversion fails
RECURSIVE persistent_headers_skip(_, _, _)
persistent_headers_skip(order, map, req_headers) ==
    IF order = <<>> THEN [err |-> NoError, headers |-> req_headers]
    ELSE IF header_name(Head(order)) = "" \/ ~header_value_ok(map[Head(order)])
    THEN persistent_headers_skip(Tail(order), map, req_headers)
    ELSE persistent_headers_skip(Tail(order), map,
                                 hm_insert(req_headers, header_name(Head(order)),
                                           map[Head(order)]))

\* lines 38-44: the persistent headers, in the map's iteration order, are
\* converted and inserted; the first failing conversion ends invoke.
RECURSIVE persistent_headers(_, _, _)
persistent_headers(order, map, req_headers) ==
    IF order = <<>> THEN [err |-> NoError, headers |-> req_headers]
    ELSE LET key == Head(order)
             value == map[key]
         IN  IF header_name(key) = ""
             THEN [err |-> FetchError("Invalid header name"), headers |-> req_headers]
             ELSE IF ~header_value_ok(value)
             THEN [err |-> FetchError("Invalid header value"), headers |-> req_headers]
             ELSE persistent_headers(Tail(order), map,
                                     hm_insert(req_headers, header_name(key), value))

\* the per-call headers merged over the request's headers
call_headers_merged(opts, req_headers) ==
    IF ~opts.headers.is_some THEN req_headers
    ELSE LET m == opts.headers.map
             names == {header_name(k) : k \in DOMAIN m}
         IN  [n \in DOMAIN req_headers \cup names |->
                IF n \in names
                THEN <<m[CHOOSE k \in DOMAIN m : header_name(k) = n]>>
                ELSE req_headers[n]]

\* lines 35-53: options.headers is never read; the request's headers are
\* those built so far
call_headers(opts, req_headers) == req_headers

\* the region falling back to the client's default region
region_of_default(opts) == IF opts.region = None THEN region ELSE opts.region

\* line 46: the region is options.region; self.region is never read
region_of(opts) == opts.region

\* region_header without the test for Any
region_header_any(opts, req_headers) ==
    IF opts.region # None
    THEN hm_insert(req_headers, "x-region", region_to_string(opts.region))
    ELSE req_headers

\* lines 46-53: x-region is set from the options' region, unless None or Any
region_header(opts, req_headers) ==
    IF region_of(opts) # None /\ region_of(opts) # "Any"
    THEN hm_insert(req_headers, "x-region", region_to_string(region_of(opts)))
    ELSE req_headers

\* line 55
method_of(opts) == IF opts.method = None THEN "Post" ELSE opts.method

\* line 57: format!("{}/{}", self.url, function_name)
url_of(base, name) == base \o "/" \o name

\* the boundary reqwest::multipart::Form::new() draws
Boundary == "multipart/form-data; boundary=<boundary>"

RequestBody(encoding, bytes, form, json) ==
    [encoding |-> encoding, bytes |-> bytes, form |-> form, json |-> json]

Request(method, u, hdrs, body) ==
    [method |-> method, url |-> u, headers |-> hdrs, body |-> body]

NoRequest == Request("", "", EmptyHeaderMap, RequestBody("none", <<>>, NoBody.form, NoBody.json))

\* lines 60-83: the body variant sets Content-Type and the body encoding.
\* RequestBuilder::multipart adds its Content-Type with RequestBuilder::header,
\* which appends; RequestBuilder::json sets Content-Type only when absent.
request_builder(method, u, body, req_headers) ==
    CASE body.variant \in BinaryVariants ->
            Request(method, u,
                    hm_insert(req_headers, "content-type", "application/octet-stream"),
                    RequestBody("raw", body.bytes, NoBody.form, NoBody.json))
      [] body.variant = "String" ->
            Request(method, u,
                    hm_insert(req_headers, "content-type", "text/plain"),
                    RequestBody("raw", body.bytes, NoBody.form, NoBody.json))
      [] body.variant = "FormData" ->
            Request(method, u,
                    hm_append(req_headers, "content-type", Boundary),
                    RequestBody("multipart", <<>>, body.form, NoBody.json))
      [] body.variant = "Json" ->
            LET h == hm_insert(req_headers, "content-type", "application/json")
            IN  Request(method, u,
                        IF hm_contains(h, "content-type") THEN h
                        ELSE hm_insert(h, "content-type", "application/json"),
                        RequestBody("json", <<>>, NoBody.form, body.json))
      [] body.variant = None ->
            Request(method, u, req_headers,
                    RequestBody("none", <<>>, NoBody.form, NoBody.json))

\* lines 35-83 as a whole: Err(FetchError) or the request to send
build_request(base, map, order, name, opt) ==
    LET opts == unwrap_or_default(opt)
        ph   == persistent_headers(order, map, EmptyHeaderMap)
    IN  IF ph.err # NoError
        THEN [err |-> ph.err, request |-> NoRequest]
        ELSE [err |-> NoError,
              request |-> request_builder(as_str(method_of(opts)), url_of(base, name),
                                          opts.body,
                                          region_header(opts, call_headers(opts, ph.headers)))]

(***************************************************************************)
(* The responses the transport can deliver                                 *)
(***************************************************************************)
\* a response header: absent, or present with a value; a value that is not
\* visible ASCII (HeaderValue::to_str is Err) has readable = FALSE
Header(present, readable, toks) ==
    [present |-> present, readable |-> readable, toks |-> toks]
Absent == Header(FALSE, FALSE, <<>>)
Value(toks) == Header(TRUE, TRUE, toks)
Opaque == Header(TRUE, FALSE, <<"0xC3", "0xA9">>)

Response(status, relay, content_type, body) ==
    [status |-> status, relay |-> relay, content_type |-> content_type, body |-> body]

NoResponse == Response(0, Absent, Absent, <<>>)

StatusCodes == {200, 204, 302, 404, 599}

RelayHeaders == {Absent, Value(<<"true">>), Value(<<"TRUE">>), Value(<<"false">>)}

ContentTypes ==
    {Absent, Opaque, Value(<<>>),
     Value(<<"application/json">>),
     Value(<<"application/json", ";", " charset=utf-8">>),
     Value(<<"Application/JSON">>),
     Value(<<"application/json", " ", ";", " charset=utf-8">>),
     Value(<<"application/octet-stream">>),
     Value(<<"text/event-stream">>),
     Value(<<"multipart/form-data">>),
     Value(<<"multipart/form-data", ";", " boundary=x">>),
     Value(<<"text/html", ";", " charset=utf-8">>)}

\* bodies, as lexical tokens; "0xFF" is a byte that is not valid UTF-8
Bodies ==
    {<<"{", "\"key\"", ":", "\"value\"", "}">>,
     <<"{", "\"key\"", ":", "1", "}">>,
     <<"\"value\"">>,
     <<"hello">>,
     <<"0x01", "0xFF">>,
     <<>>}

Responses(S, R, C, B) ==
    {Response(st, r, c, b) : st \in S, r \in R, c \in C, b \in B}

\* The responses the model delivers: every status with every x-relay-error
\* value; every Content-Type with every body on a success status.
AllResponses ==
    Responses(StatusCodes, RelayHeaders,
              {Absent, Value(<<"application/json">>)},
              {<<"{", "\"key\"", ":", "\"value\"", "}">>, <<"hello">>})
    \cup Responses({200}, {Absent, Value(<<"TRUE">>)}, ContentTypes, Bodies)

(***************************************************************************)
(* http::StatusCode                                                        *)
(***************************************************************************)
\* is_success as "not an error status"
is_success_below_400(status) == 200 <= status /\ status < 400

\* StatusCode::is_success
is_success(status) == 200 <= status /\ status < 300

\* StatusCode::canonical_reason
canonical_reason(status) ==
    CASE status = 200 -> "OK"
      [] status = 204 -> "No Content"
      [] status = 302 -> "Found"
      [] status = 404 -> "Not Found"
      [] OTHER        -> "<unknown status code>"

\* impl Display for StatusCode: the code, a space, the canonical reason
status_to_string(status) == ToString(status) \o " " \o canonical_reason(status)

(***************************************************************************)
(* models.rs: ResponseData and FunctionsResponse; invoke's return value    *)
(***************************************************************************)
ResponseData(variant, json, seq, form) ==
    [variant |-> variant, json |-> json, seq |-> seq, form |-> form]
Json(v)     == ResponseData("Json", v, <<>>, EmptyMap)
Text(t)     == ResponseData("Text", NoJson, t, EmptyMap)
Bytes(b)    == ResponseData("Bytes", NoJson, b, EmptyMap)
FormData(m) == ResponseData("FormData", NoJson, <<>>, m)
NoData      == ResponseData("none", NoJson, <<>>, EmptyMap)

\* Result<FunctionsResponse, FunctionsError>
Result(result, variant, data, error) ==
    [result |-> result, variant |-> variant, data |-> data, error |-> error]
Ok_Success(data)  == Result("Ok", "Success", data, NoError)
Ok_Failure(error) == Result("Ok", "Failure", NoData, error)
Err(error)        == Result("Err", "", NoData, error)
NoResult          == Result("", "", NoData, NoError)

(***************************************************************************)
(* Decoding a body: serde_json and reqwest's text()                        *)
(***************************************************************************)
is_string_token(t) == t \in {"\"key\"", "\"value\""}
is_number_token(t) == t \in {"1"}

\* the string a string token denotes
unquote(t) == CASE t = "\"key\"" -> "key" [] t = "\"value\"" -> "value"

scalar_of(t) ==
    IF is_string_token(t) THEN JsonScalar("string", unquote(t))
    ELSE JsonScalar("number", t)

\* serde_json::from_slice::<Value>: ok is FALSE for a body that is not JSON
parse_json(body) ==
    CASE Len(body) = 1 /\ (is_string_token(body[1]) \/ is_number_token(body[1])) ->
            [ok |-> TRUE,
             value |-> JsonValue(scalar_of(body[1]).type, scalar_of(body[1]).str, NoJson.members)]
      [] body = <<"{", "}">> ->
            [ok |-> TRUE, value |-> JsonValue("object", "", NoJson.members)]
      [] Len(body) = 5 /\ body[1] = "{" /\ is_string_token(body[2]) /\ body[3] = ":"
           /\ (is_string_token(body[4]) \/ is_number_token(body[4])) /\ body[5] = "}" ->
            [ok |-> TRUE,
             value |-> JsonValue("object", "", (unquote(body[2]) :> scalar_of(body[4])))]
      [] OTHER -> [ok |-> FALSE, value |-> NoJson]

\* serde_json::from_slice::<HashMap<String, String>>: a JSON object whose
\* members are all strings
parse_string_map(body) ==
    LET p == parse_json(body)
    IN  IF p.ok /\ p.value.type = "object"
             /\ \A k \in DOMAIN p.value.members : p.value.members[k].type = "string"
        THEN [ok |-> TRUE, map |-> [k \in DOMAIN p.value.members |-> p.value.members[k].str]]
        ELSE [ok |-> FALSE, map |-> EmptyMap]

\* Response::text: a lossy decode, every invalid byte becomes U+FFFD
decode_text(body) ==
    [i \in 1..Len(body) |-> IF body[i] = "0xFF" THEN "U+FFFD" ELSE body[i]]

(***************************************************************************)
(* client.rs, invoke: the response classifier and decoder (lines 88-130)   *)
(***************************************************************************)
\* lines 88-92: x-relay-error is present and equals "true"
is_relay_error(resp) ==
    resp.relay.present /\ resp.relay.readable /\ resp.relay.toks = <<"true">>

\* the part of a value before its first ";" (str::split(';').next())
RECURSIVE before_semicolon(_)
before_semicolon(toks) ==
    IF toks = <<>> \/ Head(toks) = ";" THEN <<>>
    ELSE <<Head(toks)>> \o before_semicolon(Tail(toks))

\* content_type_of matching on the whole value, parameters included
content_type_whole(resp) ==
    IF resp.content_type.present /\ resp.content_type.readable
    THEN resp.content_type.toks
    ELSE <<"text/plain">>

\* content_type_of defaulting to application/json
content_type_default_json(resp) ==
    before_semicolon(IF resp.content_type.present /\ resp.content_type.readable
                     THEN resp.content_type.toks
                     ELSE <<"application/json">>)

\* lines 98-105
content_type_of(resp) ==
    before_semicolon(IF resp.content_type.present /\ resp.content_type.readable
                     THEN resp.content_type.toks
                     ELSE <<"text/plain">>)

BodyError   == FetchError("request or response body error")
DecodeError == FetchError("error decoding response body")
SendError   == FetchError("error sending request")

\* a failed read or parse wrapped in the success type
decode_failed_as_response(error) == Ok_Failure(error)

\* .map_err(|e| FunctionsError::FetchError(e.to_string()))? on lines 109-125
decode_failed(error) == Err(error)

\* lines 107-130; read_ok is FALSE when reading the body from the transport fails
decode(resp, read_ok) ==
    LET ct == content_type_of(resp)
    IN  CASE ct = <<"application/json">> ->
                IF ~read_ok THEN decode_failed(BodyError)
                ELSE IF ~parse_json(resp.body).ok THEN decode_failed(DecodeError)
                ELSE Ok_Success(Json(parse_json(resp.body).value))
          [] ct = <<"application/octet-stream">> ->
                IF ~read_ok THEN decode_failed(BodyError)
                ELSE Ok_Success(Bytes(resp.body))
          [] ct = <<"text/event-stream">> ->
                IF ~read_ok THEN decode_failed(BodyError)
                ELSE Ok_Success(Text(decode_text(resp.body)))
          [] ct = <<"multipart/form-data">> ->
                IF ~read_ok THEN decode_failed(BodyError)
                ELSE IF ~parse_string_map(resp.body).ok THEN decode_failed(DecodeError)
                ELSE Ok_Success(FormData(parse_string_map(resp.body).map))
          [] OTHER ->
                IF ~read_ok THEN decode_failed(BodyError)
                ELSE Ok_Success(Text(decode_text(resp.body)))

\* classify with the status check made before the relay check
classify_status_first(resp) ==
    IF ~is_success(resp.status)
    THEN HttpError(status_to_string(resp.status))
    ELSE IF is_relay_error(resp)
    THEN RelayError("Relay Error invoking the Edge Function")
    ELSE NoError

\* lines 88-96: the error the classifier returns, NoError to go on to decoding
classify(resp) ==
    IF is_relay_error(resp)
    THEN RelayError("Relay Error invoking the Edge Function")
    ELSE IF ~is_success(resp.status)
    THEN HttpError(status_to_string(resp.status))
    ELSE NoError

\* a send error answered by sending again
after_send_error_retry(c) == "send"

\* what a send that ended in Err does next: invoke returns (the `?` on line 85)
after_send_error(c) == "done"

\* invoke writing the region header into the client's own map
headers_after_invoke_shared(map, opts) ==
    IF opts.region # None /\ opts.region # "Any"
    THEN [k \in DOMAIN map \cup {"x-region"} |->
            IF k = "x-region" THEN region_to_string(opts.region) ELSE map[k]]
    ELSE map

\* line 36: invoke takes &self and works on a clone of self.headers
headers_after_invoke(map, opts) == map

(***************************************************************************)
(* client.rs: FunctionsClient::new and set_auth                            *)
(***************************************************************************)
Perms(S) ==
    {p \in [1..Cardinality(S) -> S] : \A i, j \in 1..Cardinality(S) : p[i] = p[j] => i = j}

\* lines 17-24
new(u, h, r) ==
    [url |-> u,
     headers |-> IF h.is_some THEN h.map ELSE EmptyMap,
     region |-> IF r = None THEN "Any" ELSE r]

\* set_auth storing the token under the lower-case key
set_auth_headers_lower(map, token) ==
    [k \in DOMAIN map \cup {"authorization"} |->
        IF k = "authorization" THEN "Bearer " \o token ELSE map[k]]

\* line 27: HashMap::insert under the key "Authorization"
set_auth_headers(map, token) ==
    [k \in DOMAIN map \cup {"Authorization"} |->
        IF k = "Authorization" THEN "Bearer " \o token ELSE map[k]]

Tokens == {"test-token", "other-token"}

BaseUrls == {"http://127.0.0.1:1234"}

InitHeaders ==
    {OptHeaders(FALSE, EmptyMap),
     OptHeaders(TRUE, ("authorization" :> "Bearer old-token")),
     OptHeaders(TRUE, ("X-Region" :> "eu-west-1")),
     OptHeaders(TRUE, ("Content-Type" :> "application/json")),
     OptHeaders(TRUE, ("bad name" :> "v")),
     OptHeaders(TRUE, ("X-Custom" :> "two\nlines")),
     OptHeaders(TRUE, ("bad name" :> "v") @@ ("X-Custom" :> "two\nlines"))}

InitRegions == {None, "Any", "UsEast1"}

Last(op, c, token) ==
    [op |-> op, call |-> c, token |-> token, url |-> url, headers |-> headers,
     region |-> region]

Init ==
    /\ \E u \in BaseUrls, h \in InitHeaders, r \in InitRegions :
          /\ url = new(u, h, r).url
          /\ headers = new(u, h, r).headers
          /\ region = new(u, h, r).region
    /\ iterOrder \in Perms(DOMAIN headers)
    /\ pc = [c \in Calls |-> "idle"]
    /\ function_name = [c \in Calls |-> ""]
    /\ options = [c \in Calls |-> OptOptions(FALSE, DefaultOptions)]
    /\ request = [c \in Calls |-> NoRequest]
    /\ sent = [c \in Calls |-> 0]
    /\ response = [c \in Calls |-> NoResponse]
    /\ outcome = [c \in Calls |-> NoResult]
    /\ last = [op |-> "new", call |-> 0, token |-> "", url |-> url, headers |-> headers,
               region |-> region]

\* set_auth takes &mut self: no invoke can hold the client while it runs.
\* Inserting a new key may rehash the map, which changes the iteration order.
set_auth(token) ==
    /\ \A c \in Calls : pc[c] = "idle"
    /\ headers' = set_auth_headers(headers, token)
    /\ IF "Authorization" \in DOMAIN headers
       THEN iterOrder' = iterOrder
       ELSE iterOrder' \in Perms(DOMAIN headers')
    /\ last' = Last("set_auth", 0, token)
    /\ UNCHANGED <<url, region, calls>>

(***************************************************************************)
(* client.rs: invoke, one action per stretch between its await points      *)
(***************************************************************************)
\* lines 35-83: build the request, or return the header conversion's error
Invoke(c, Names, Opts) ==
    /\ pc[c] = "idle"
    /\ \E name \in Names, opt \in Opts :
          LET b == build_request(url, headers, iterOrder, name, opt)
          IN  /\ function_name' = [function_name EXCEPT ![c] = name]
              /\ options' = [options EXCEPT ![c] = opt]
              /\ headers' = headers_after_invoke(headers, unwrap_or_default(opt))
              /\ sent' = [sent EXCEPT ![c] = 0]
              /\ response' = [response EXCEPT ![c] = NoResponse]
              /\ IF b.err # NoError
                 THEN /\ pc' = [pc EXCEPT ![c] = "done"]
                      /\ outcome' = [outcome EXCEPT ![c] = Err(b.err)]
                      /\ request' = [request EXCEPT ![c] = NoRequest]
                 ELSE /\ pc' = [pc EXCEPT ![c] = "send"]
                      /\ outcome' = [outcome EXCEPT ![c] = NoResult]
                      /\ request' = [request EXCEPT ![c] = b.request]
    /\ last' = Last("invoke", c, last.token)
    /\ UNCHANGED <<url, region, iterOrder>>

\* lines 85-105: send() consumes the request (the name and the options are not
\* read again after line 83); the transport fails, or delivers a response,
\* which is classified
Send(c, Resps) ==
    /\ pc[c] = "send"
    /\ sent' = [sent EXCEPT ![c] = @ + 1]
    /\ \/ /\ pc' = [pc EXCEPT ![c] = after_send_error(c)]
          /\ outcome' = [outcome EXCEPT ![c] =
                            IF after_send_error(c) = "done" THEN Err(SendError) ELSE @]
          /\ response' = [response EXCEPT ![c] = NoResponse]
          /\ request' = [request EXCEPT ![c] =
                            IF after_send_error(c) = "done" THEN NoRequest ELSE @]
       \/ \E resp \in Resps :
             /\ response' = [response EXCEPT ![c] = resp]
             /\ request' = [request EXCEPT ![c] = NoRequest]
             /\ IF classify(resp) # NoError
                THEN /\ pc' = [pc EXCEPT ![c] = "done"]
                     /\ outcome' = [outcome EXCEPT ![c] = Err(classify(resp))]
                ELSE /\ pc' = [pc EXCEPT ![c] = "body"]
                     /\ outcome' = [outcome EXCEPT ![c] = NoResult]
    /\ function_name' = [function_name EXCEPT ![c] = ""]
    /\ options' = [options EXCEPT ![c] = OptOptions(FALSE, DefaultOptions)]
    /\ last' = Last("send", c, last.token)
    /\ UNCHANGED client

\* lines 107-130: read the body and decode it
ReadBody(c) ==
    /\ pc[c] = "body"
    /\ \E read_ok \in BOOLEAN :
          outcome' = [outcome EXCEPT ![c] = decode(response[c], read_ok)]
    /\ pc' = [pc EXCEPT ![c] = "done"]
    /\ last' = Last("read_body", c, last.token)
    /\ UNCHANGED <<client, function_name, options, request, sent, response>>

\* the caller takes the result; the call's slot is free for the next invoke
Return(c) ==
    /\ pc[c] = "done"
    /\ pc' = [pc EXCEPT ![c] = "idle"]
    /\ function_name' = [function_name EXCEPT ![c] = ""]
    /\ options' = [options EXCEPT ![c] = OptOptions(FALSE, DefaultOptions)]
    /\ request' = [request EXCEPT ![c] = NoRequest]
    /\ sent' = [sent EXCEPT ![c] = 0]
    /\ response' = [response EXCEPT ![c] = NoResponse]
    /\ outcome' = [outcome EXCEPT ![c] = NoResult]
    /\ last' = Last("return", c, last.token)
    /\ UNCHANGED client

\* One caller: invocations follow one another, with every option and response.
Next ==
    \/ \E token \in Tokens : set_auth(token)
    \/ Invoke(1, FunctionNames, AllOptions)
    \/ Send(1, AllResponses)
    \/ ReadBody(1)
    \/ Return(1)

Spec == Init /\ [][Next]_vars

\* Several callers share the client: up to NumCalls invocations are in flight
\* at once and their steps interleave freely.
ConcNames == {"function-name"}

ConcOptions ==
    {OptOptions(FALSE, DefaultOptions)}
    \cup Options({OptHeaders(FALSE, EmptyMap)}, {"Get"}, {"UsEast1"},
                 {b \in InvokeBodies : b.variant = "Json"})
    \cup Options({OptHeaders(FALSE, EmptyMap)}, {None}, {"Any"},
                 {b \in InvokeBodies : b.variant = "FormData"})

ConcResponses ==
    Responses({200}, {Value(<<"true">>)}, {Absent}, {<<"hello">>})
    \cup Responses({404}, {Absent}, {Absent}, {<<"hello">>})
    \cup Responses({200}, {Absent},
                   {Value(<<"application/json", ";", " charset=utf-8">>), Absent},
                   {<<"hello">>})

NextConc ==
    \/ \E token \in Tokens : set_auth(token)
    \/ \E c \in Calls : Invoke(c, ConcNames, ConcOptions)
    \/ \E c \in Calls : Send(c, ConcResponses)
    \/ \E c \in Calls : ReadBody(c)
    \/ \E c \in Calls : Return(c)

SpecConc == Init /\ [][NextConc]_vars

(***************************************************************************)
(* Properties                                                              *)
(***************************************************************************)
Received(c) == response[c] # NoResponse
RelayTrue(c) == response[c].relay = Value(<<"true">>)
Status2xx(c) == response[c].status \in 200..299
Failed(c, kind) == outcome[c].result = "Err" /\ outcome[c].error.kind = kind

\* C1: a response carrying x-relay-error: true yields RelayError whatever
\* its status and Content-Type: never HttpError, never Success, and its body
\* is never decoded.
C1_RelayErrorFirst ==
    \A c \in Calls :
        Received(c) /\ RelayTrue(c) =>
            /\ pc[c] = "done"
            /\ Failed(c, "RelayError")
            /\ outcome[c].data = NoData

C1_Witness ==
    \E c \in Calls :
        /\ Received(c) /\ RelayTrue(c) /\ response[c].status = 200
        /\ Failed(c, "RelayError")

\* C2: a response with a status outside 2xx that is not a relay error yields
\* HttpError whose message is the text of the status, and its body is never
\* decoded.
C2_HttpError ==
    \A c \in Calls :
        Received(c) /\ ~Status2xx(c) /\ ~RelayTrue(c) =>
            /\ pc[c] = "done"
            /\ outcome[c] = Err(HttpError(status_to_string(response[c].status)))
            /\ outcome[c].data = NoData

C2_Witness ==
    \E c \in Calls :
        /\ Received(c) /\ response[c].status = 404
        /\ response[c].relay = Value(<<"TRUE">>)
        /\ outcome[c] = Err(HttpError("404 Not Found"))

\* the lower-case form of a word of a variant's identifier
lower_word(w) ==
    CASE w = "Any" -> "any" [] w = "Ap" -> "ap" [] w = "Ca" -> "ca" [] w = "Eu" -> "eu"
      [] w = "Sa" -> "sa" [] w = "Us" -> "us" [] w = "Northeast" -> "northeast"
      [] w = "Southeast" -> "southeast" [] w = "South" -> "south" [] w = "East" -> "east"
      [] w = "West" -> "west" [] w = "Central" -> "central" [] OTHER -> w

\* the words in lower case, joined by hyphens
RECURSIVE Kebab(_)
Kebab(words) ==
    IF Len(words) = 1 THEN lower_word(words[1])
    ELSE lower_word(Head(words)) \o "-" \o Kebab(Tail(words))

Opts(c) == unwrap_or_default(options[c])
HasRegion(c) == Opts(c).region # None /\ Opts(c).region # "Any"
XRegionKeys == {k \in DOMAIN headers : header_name(k) = "x-region"}

RegionHeaderSet(c) ==
    /\ "x-region" \in DOMAIN request[c].headers
    /\ request[c].headers["x-region"] = <<Kebab(RegionWords(Opts(c).region))>>

\* C3 as stated: a region other than Any puts x-region, with the region's
\* lower-case hyphenated name, on the dispatched request; with region Any, no
\* region or no options the dispatched request has no x-region header.
C3_Original ==
    \A c \in Calls :
        pc[c] = "send" =>
            IF HasRegion(c) THEN RegionHeaderSet(c)
            ELSE "x-region" \notin DOMAIN request[c].headers

\* C3 as amended: with region Any, no region or no options, invoke adds no
\* x-region header of its own: the request has one exactly when the persistent
\* headers hold an entry named x-region (in any letter case), whose value it is.
C3_RegionHeader ==
    \A c \in Calls :
        pc[c] = "send" =>
            IF HasRegion(c) THEN RegionHeaderSet(c)
            ELSE /\ ("x-region" \in DOMAIN request[c].headers) <=> (XRegionKeys # {})
                 /\ "x-region" \in DOMAIN request[c].headers =>
                        \E k \in XRegionKeys : request[c].headers["x-region"] = <<headers[k]>>

C3_Witness ==
    \E c \in Calls :
        /\ pc[c] = "send" /\ Opts(c).region = "UsEast1"
        /\ XRegionKeys # {}
        /\ request[c].headers["x-region"] = <<"us-east-1">>

ContentTypeValues(c) ==
    IF "content-type" \in DOMAIN request[c].headers
    THEN request[c].headers["content-type"] ELSE <<>>

\* C4: the Content-Type of the dispatched request is set by the body variant
\* alone, whatever the persistent headers hold: octet-stream with the bytes
\* unchanged for File, Blob and ArrayBuffer, text/plain for String,
\* application/json for Json, only the multipart boundary header for FormData,
\* and no body at all without a body.
C4_ContentTypeByVariant ==
    \A c \in Calls :
        pc[c] = "send" =>
            LET b == Opts(c).body
                r == request[c]
            IN  CASE b.variant \in BinaryVariants ->
                        /\ ContentTypeValues(c) = <<"application/octet-stream">>
                        /\ r.body.encoding = "raw" /\ r.body.bytes = b.bytes
                  [] b.variant = "String" ->
                        /\ ContentTypeValues(c) = <<"text/plain">>
                        /\ r.body.encoding = "raw" /\ r.body.bytes = b.bytes
                  [] b.variant = "Json" ->
                        /\ ContentTypeValues(c) = <<"application/json">>
                        /\ r.body.encoding = "json" /\ r.body.json = b.json
                  [] b.variant = "FormData" ->
                        /\ ContentTypeValues(c) = <<Boundary>>
                        /\ r.body.encoding = "multipart" /\ r.body.form = b.form
                  [] b.variant = None ->
                        r.body.encoding = "none"

\* C5: after set_auth the map holds Authorization = "Bearer " + the last
\* token; set_auth changes no other entry, nor the URL, nor the region; and
\* set_auth with the token already stored leaves the client as it was.
C5_SetAuth ==
    /\ last.token # "" =>
          /\ "Authorization" \in DOMAIN headers
          /\ headers["Authorization"] = "Bearer " \o last.token
          /\ Cardinality({k \in DOMAIN headers : k = "Authorization"}) = 1
    /\ last.op = "set_auth" =>
          /\ url = last.url /\ region = last.region
          /\ DOMAIN headers = DOMAIN last.headers \cup {"Authorization"}
          /\ \A k \in DOMAIN last.headers \ {"Authorization"} : headers[k] = last.headers[k]
          /\ ("Authorization" \in DOMAIN last.headers
                /\ last.headers["Authorization"] = "Bearer " \o last.token)
             => headers = last.headers

C5_Witness ==
    /\ last.op = "set_auth"
    /\ "Authorization" \in DOMAIN last.headers
    /\ "authorization" \in DOMAIN last.headers
    /\ last.headers["Authorization"] = "Bearer other-token"
    /\ headers["Authorization"] = "Bearer test-token"

Succeeded(c) == outcome[c].result = "Ok" /\ outcome[c].variant = "Success"

\* the declared Content-Type as a string, cut at its first ";"
DeclaredType(c) ==
    LET h == response[c].content_type
        toks == IF h.present /\ h.readable THEN h.toks ELSE <<"text/plain">>
        first == IF \E i \in 1..Len(toks) : toks[i] = ";"
                 THEN CHOOSE i \in 1..Len(toks) :
                        toks[i] = ";" /\ \A j \in 1..(i - 1) : toks[j] # ";"
                 ELSE Len(toks) + 1
    IN  SubSeq(toks, 1, first - 1)

RecognisedTypes ==
    {<<"application/json">>, <<"application/octet-stream">>, <<"text/event-stream">>,
     <<"multipart/form-data">>}

\* C6: the payload of a Success is chosen by the declared Content-Type up to
\* its first ";" alone, matched exactly: application/json gives Json,
\* application/octet-stream gives Bytes equal to the body, text/event-stream
\* gives Text, multipart/form-data gives FormData read from a JSON object of
\* strings, anything else gives Text; exactly one variant is populated.
C6_DecodeByContentType ==
    \A c \in Calls :
        pc[c] = "done" /\ Succeeded(c) =>
            LET t == DeclaredType(c)
                d == outcome[c].data
                body == response[c].body
            IN  /\ Received(c) /\ Status2xx(c) /\ ~RelayTrue(c)
                /\ outcome[c].error = NoError
                /\ CASE t = <<"application/json">> ->
                            d = Json(d.json) /\ d.json = parse_json(body).value
                                /\ parse_json(body).ok
                     [] t = <<"application/octet-stream">> ->
                            d = Bytes(body)
                     [] t = <<"text/event-stream">> ->
                            d = Text(decode_text(body))
                     [] t = <<"multipart/form-data">> ->
                            d = FormData(d.form) /\ d.form = parse_string_map(body).map
                                /\ parse_string_map(body).ok
                     [] OTHER ->
                            d = Text(decode_text(body))

C6_Witness ==
    \E c \in Calls :
        /\ pc[c] = "done" /\ Succeeded(c)
        /\ response[c].content_type = Value(<<"application/json", ";", " charset=utf-8">>)
        /\ response[c].body = <<"{", "\"key\"", ":", "\"value\"", "}">>
        /\ outcome[c].data.variant = "Json"
        /\ outcome[c].data.json.members["key"] = JsonScalar("string", "value")

\* C7: a 2xx response that is no relay error and whose Content-Type is
\* absent, unreadable or none of the four recognised types is decoded as text
\* and gives Success with a Text payload; the only error left is a failure of
\* the transport while the body is read.
C7_TextByDefault ==
    \A c \in Calls :
        (/\ pc[c] = "done" /\ Received(c) /\ Status2xx(c) /\ ~RelayTrue(c)
         /\ DeclaredType(c) \notin RecognisedTypes)
        => \/ outcome[c] = Ok_Success(Text(decode_text(response[c].body)))
           \/ outcome[c] = Err(BodyError)

C7_Witness ==
    \E c \in Calls :
        /\ pc[c] = "done" /\ Received(c) /\ Status2xx(c)
        /\ response[c].content_type = Absent
        /\ response[c].body = <<"0x01", "0xFF">>
        /\ outcome[c] = Ok_Success(Text(<<"0x01", "U+FFFD">>))

\* C8: a finished invocation has exactly one outcome, Success with one payload
\* or one error of kind FetchError, HttpError or RelayError; a failed send and
\* a failed decode are FetchErrors; the success type never wraps an error; an
\* unfinished invocation has no outcome.
C8_OneOutcome ==
    \A c \in Calls :
        /\ pc[c] # "done" => outcome[c] = NoResult
        /\ pc[c] = "done" =>
              /\ \/ /\ Succeeded(c)
                    /\ outcome[c].data.variant \in {"Json", "Text", "Bytes", "FormData"}
                    /\ outcome[c].error = NoError
                 \/ /\ outcome[c].result = "Err" /\ outcome[c].variant = ""
                    /\ outcome[c].error.kind \in ErrorKinds
                    /\ outcome[c].data = NoData
              /\ (sent[c] = 1 /\ ~Received(c)) => Failed(c, "FetchError")
              /\ (Received(c) /\ Status2xx(c) /\ ~RelayTrue(c) /\ ~Succeeded(c))
                    => Failed(c, "FetchError")

C8_Witness ==
    \E c \in Calls :
        /\ pc[c] = "done" /\ Received(c) /\ Status2xx(c) /\ ~RelayTrue(c)
        /\ response[c].content_type = Value(<<"application/json">>)
        /\ response[c].body = <<"hello">>
        /\ outcome[c] = Err(DecodeError)

\* what a call's outcome can be, given its own inputs and the client alone
OutcomesAlone(c) ==
    IF sent[c] = 0
    THEN {Err(build_request(url, headers, iterOrder, function_name[c], options[c]).err)}
    ELSE IF ~Received(c) THEN {Err(SendError)}
    ELSE IF classify(response[c]) # NoError THEN {Err(classify(response[c]))}
    ELSE {decode(response[c], ok) : ok \in BOOLEAN}

\* C9: invoke leaves the client as it found it, and with several invocations
\* in flight on one client each holds the request, and returns the outcome, it
\* would have alone with that client and that response.
C9_Independent ==
    /\ last.op \in {"invoke", "send", "read_body", "return"} =>
          url = last.url /\ headers = last.headers /\ region = last.region
    /\ \A c \in Calls :
          /\ pc[c] = "send" =>
                request[c] = build_request(url, headers, iterOrder,
                                           function_name[c], options[c]).request
          /\ pc[c] = "done" => outcome[c] \in OutcomesAlone(c)

C9_Witness ==
    \E c, d \in Calls :
        /\ c # d
        /\ pc[c] = "send" /\ "x-region" \in DOMAIN request[c].headers
        /\ pc[d] = "done" /\ Received(d) /\ Succeeded(d)
        /\ last.op = "read_body" /\ last.call = d

\* C10: an invocation sends at most one request; a failed send, a relay
\* error, a status outside 2xx or a failed decode ends it with that error.
C10_NoRetry ==
    \A c \in Calls :
        /\ sent[c] <= 1
        /\ pc[c] = "send" => sent[c] = 0
        /\ pc[c] = "body" => sent[c] = 1
        /\ outcome[c].result = "Err" => pc[c] = "done"
        /\ (pc[c] = "done" /\ sent[c] = 1 /\ ~Received(c)) => outcome[c] = Err(SendError)
        /\ (pc[c] = "done" /\ Received(c) /\ RelayTrue(c)) => Failed(c, "RelayError")
        /\ (pc[c] = "done" /\ Received(c) /\ ~RelayTrue(c) /\ ~Status2xx(c))
              => Failed(c, "HttpError")

C10_Witness ==
    \E c \in Calls :
        pc[c] = "done" /\ sent[c] = 1 /\ ~Received(c) /\ outcome[c] = Err(SendError)

\* the options with the per-call headers taken out
WithoutCallHeaders(opt) ==
    OptOptions(opt.is_some,
               [unwrap_or_default(opt) EXCEPT !.headers = OptHeaders(FALSE, EmptyMap)])

\* C11: the headers field of the options has no effect on the request: the
\* request is the one built from the same options without that field, and
\* every header on it other than x-region and Content-Type is a persistent
\* entry with the persistent value.
C11_CallHeadersIgnored ==
    \A c \in Calls :
        pc[c] = "send" =>
            /\ request[c] = build_request(url, headers, iterOrder, function_name[c],
                                          WithoutCallHeaders(options[c])).request
            /\ \A n \in DOMAIN request[c].headers \ {"x-region", "content-type"} :
                  \E k \in DOMAIN headers :
                      header_name(k) = n /\ request[c].headers[n] = <<headers[k]>>

C11_Witness ==
    \E c \in Calls :
        /\ pc[c] = "send"
        /\ Opts(c).headers = OptHeaders(TRUE, ("Authorization" :> "Bearer per-call"))
        /\ DOMAIN headers = {"Authorization"}
        /\ request[c].headers["authorization"] = <<"Bearer test-token">>

\* the request built from the URL, the persistent headers, the name and the
\* options, with no part of it taken from the client's default region
RequestWithoutDefault(c) ==
    LET o  == Opts(c)
        ph == persistent_headers(iterOrder, headers, EmptyHeaderMap).headers
        h  == IF o.region # None /\ o.region # "Any"
              THEN hm_insert(ph, "x-region", region_to_string(o.region))
              ELSE ph
    IN  request_builder(as_str(method_of(o)), url_of(url, function_name[c]), o.body, h)

\* C12 as stated: the client's default region has no effect on the request,
\* and an invocation whose options carry no region sends no x-region header
\* even when the client's default region is not Any.
C12_Original ==
    \A c \in Calls :
        pc[c] = "send" =>
            /\ request[c] = RequestWithoutDefault(c)
            /\ (Opts(c).region = None /\ region # "Any")
                  => "x-region" \notin DOMAIN request[c].headers

\* C12 as amended: the client's default region has no effect on the request,
\* and an invocation whose options carry no region gets no x-region header
\* from invoke, whatever the default region: the request has one exactly when
\* the persistent headers hold an entry named x-region.
C12_DefaultRegionIgnored ==
    \A c \in Calls :
        pc[c] = "send" =>
            /\ request[c] = RequestWithoutDefault(c)
            /\ Opts(c).region = None =>
                  (("x-region" \in DOMAIN request[c].headers) <=> (XRegionKeys # {}))

C12_Witness ==
    \E c \in Calls :
        /\ pc[c] = "send" /\ region = "UsEast1"
        /\ options[c].is_some /\ Opts(c).region = None
        /\ "x-region" \notin DOMAIN request[c].headers

InvalidEntry(k) == header_name(k) = "" \/ ~header_value_ok(headers[k])
HasInvalidEntry == \E k \in DOMAIN headers : InvalidEntry(k)

\* the error of the first invalid entry the iteration meets
FirstInvalidError ==
    LET i == CHOOSE i \in 1..Len(iterOrder) :
                /\ InvalidEntry(iterOrder[i])
                /\ \A j \in 1..(i - 1) : ~InvalidEntry(iterOrder[j])
    IN  IF header_name(iterOrder[i]) = ""
        THEN FetchError("Invalid header name")
        ELSE FetchError("Invalid header value")

\* C13: while a persistent entry has an invalid name or value, every invoke
\* returns a FetchError without dispatching: no request is built or sent, no
\* response is received, the client is unchanged, and the error is that of the
\* first invalid entry met, whatever the options.
C13_InvalidPersistentHeader ==
    HasInvalidEntry =>
        /\ \A c \in Calls :
              /\ pc[c] \in {"idle", "done"}
              /\ sent[c] = 0 /\ ~Received(c) /\ request[c] = NoRequest
              /\ pc[c] = "done" => outcome[c] = Err(FirstInvalidError)
        /\ last.op = "invoke" =>
              url = last.url /\ headers = last.headers /\ region = last.region

C13_Witness ==
    \E c \in Calls :
        /\ pc[c] = "done" /\ last.op = "invoke"
        /\ DOMAIN headers = {"bad name", "X-Custom", "Authorization"}
        /\ Opts(c).region = "UsEast1" /\ Opts(c).body.variant = "Json"
        /\ outcome[c] = Err(FetchError("Invalid header value"))

====
